---- MODULE Spec2Model ----
(***************************************************************************)
(* Model of the chat server of MY-AI-BOT: the in-memory message store      *)
(* (MemStorage), the Express request handlers of server/routes.ts and the  *)
(* outcome of the Gemini service calls they make.                          *)
(*                                                                         *)
(* Every `await` of a handler is a point where other requests may run, so  *)
(* each handler is split into one action per synchronous segment.          *)
(***************************************************************************)
EXTENDS Integers, Sequences, FiniteSets, TLC

VARIABLES
    messages,   \* MemStorage.messages: a JS Map, kept as its insertion-ordered entries
    files,      \* paths that exist under uploads/ on disk
    now,        \* the system clock read by new Date() and Date.now()
    uuids,      \* number of values randomUUID() has returned so far
    uploads,    \* number of file names multer has generated so far
    started,    \* number of POST requests received so far
    req         \* per POST request: its position and locals

vars == <<messages, files, now, uuids, uploads, started, req>>

----------------------------------------------------------------------------
(* Bounds of the model *)

MaxRequests == 2    \* POST requests received in one behaviour
MaxProbes == 1      \* POST requests received in one behaviour of SpecBoundary
MaxClock == 1       \* clock ticks in one behaviour

----------------------------------------------------------------------------
(* JavaScript values *)

Undefined == "<undefined>"
Null == "<null>"

\* JS truthiness of a string-or-missing value: !x
Falsy(x) == x \in {Undefined, Null, ""}

\* x ?? y
OrElseNullish(x, y) == IF x \in {Undefined, Null} THEN y ELSE x

\* x || y
OrElse(x, y) == IF Falsy(x) THEN y ELSE x

RECURSIVE Repeat(_, _)
Repeat(s, n) ==
    IF n = 0 THEN ""
    ELSE IF n % 2 = 0 THEN LET h == Repeat(s, n \div 2) IN h \o h
    ELSE s \o Repeat(s, n - 1)

----------------------------------------------------------------------------
(* Request validation: routes.ts lines 11-35 *)

MaxMessageLen == 2000
MaxPromptLen == 1000
FileSizeLimit == 10 * 1024 * 1024

IsString(x) == x # Undefined

\* A schema whose message has no upper limit
ChatRequestValidNoMax(message, sessionId) ==
    /\ IsString(message) /\ Len(message) >= 1
    /\ IsString(sessionId) /\ Len(sessionId) >= 1

\* chatRequestSchema.parse succeeds
ChatRequestValid(message, sessionId) ==
    /\ IsString(message) /\ Len(message) >= 1 /\ Len(message) <= MaxMessageLen
    /\ IsString(sessionId) /\ Len(sessionId) >= 1

\* imageGenerationSchema.parse succeeds
ImageGenerationValid(prompt, sessionId) ==
    /\ IsString(prompt) /\ Len(prompt) >= 1 /\ Len(prompt) <= MaxPromptLen
    /\ IsString(sessionId) /\ Len(sessionId) >= 1

AllowedTypes == {"image/jpeg", "image/jpg", "image/png", "image/gif", "image/webp"}

NoFile == [present |-> FALSE, mimetype |-> "", size |-> 0]

\* A file filter that lets every type through
FileFilterAcceptsAll(file) == file.mimetype = file.mimetype

\* multer's fileFilter calls cb(null, true)
FileFilterAccepts(file) == file.mimetype \in AllowedTypes

\* multer's limits.fileSize is not exceeded
WithinFileSizeLimit(file) == file.size <= FileSizeLimit

----------------------------------------------------------------------------
(* MemStorage: routes.ts lines 221-273 *)

\* A map of bounded size: the oldest entry makes room for a third one
MapSetEvicting(entries, msg) ==
    IF Len(entries) >= 2 THEN Append(Tail(entries), msg) ELSE Append(entries, msg)

\* Map.prototype.set: a new key is appended, an existing key keeps its place
MapSet(entries, msg) ==
    IF \E i \in 1..Len(entries) : entries[i].id = msg.id
    THEN [i \in 1..Len(entries) |->
            IF entries[i].id = msg.id THEN msg ELSE entries[i]]
    ELSE Append(entries, msg)

\* A record that never carries an image
NewMessageWithoutImage(insertMessage, id, timestamp) ==
    [id          |-> id,
     sessionId   |-> insertMessage.sessionId,
     role        |-> insertMessage.role,
     content     |-> insertMessage.content,
     timestamp   |-> timestamp,
     imageUrl    |-> Null,
     messageType |-> OrElse(insertMessage.messageType, "text")]

\* A record whose messageType is always the default
NewMessageTextOnly(insertMessage, id, timestamp) ==
    [id          |-> id,
     sessionId   |-> insertMessage.sessionId,
     role        |-> insertMessage.role,
     content     |-> insertMessage.content,
     timestamp   |-> timestamp,
     imageUrl    |-> OrElse(insertMessage.imageUrl, Null),
     messageType |-> "text"]

\* The record createMessage builds from an InsertMessage
NewMessage(insertMessage, id, timestamp) ==
    [id          |-> id,
     sessionId   |-> insertMessage.sessionId,
     role        |-> insertMessage.role,
     content     |-> insertMessage.content,
     timestamp   |-> timestamp,
     imageUrl    |-> OrElse(insertMessage.imageUrl, Null),
     messageType |-> OrElse(insertMessage.messageType, "text")]

\* A generator that repeats itself
RandomUUIDRepeating(n) == n % 2

\* randomUUID(): the n-th value returned; values never repeat
RandomUUID(n) == n

CreateMessage(entries, insertMessage, id, timestamp) ==
    MapSet(entries, NewMessage(insertMessage, id, timestamp))

\* A comparator that ranks the first of two equal timestamps higher
CompareTimestampTiesSwapped(a, b) ==
    IF a.timestamp = b.timestamp THEN 1 ELSE a.timestamp - b.timestamp

\* A comparator that sorts the newest message first
CompareTimestampReversed(a, b) == b.timestamp - a.timestamp

\* The comparator of getMessagesBySessionId's sort
CompareTimestamp(a, b) == a.timestamp - b.timestamp

\* Insert m behind every element that does not compare greater (stable)
RECURSIVE InsertSorted(_, _)
InsertSorted(sorted, m) ==
    IF sorted = <<>> THEN <<m>>
    ELSE LET lastElem == sorted[Len(sorted)] IN
         IF CompareTimestamp(lastElem, m) <= 0
         THEN Append(sorted, m)
         ELSE Append(InsertSorted(SubSeq(sorted, 1, Len(sorted) - 1), m), lastElem)

\* Array.prototype.sort with the comparator above (a stable sort)
RECURSIVE SortByTimestamp(_)
SortByTimestamp(s) ==
    IF s = <<>> THEN <<>>
    ELSE InsertSorted(SortByTimestamp(SubSeq(s, 1, Len(s) - 1)), s[Len(s)])

\* A filter that keeps only the replies of the session
SessionFilterReplies(message, sessionId) ==
    message.sessionId = sessionId /\ message.role = "assistant"

\* A filter that keeps the messages of every session
SessionFilterAll(message, sessionId) == message.sessionId = message.sessionId

SessionFilter(message, sessionId) == message.sessionId = sessionId

GetMessagesBySessionId(entries, sessionId) ==
    SortByTimestamp(SelectSeq(entries, LAMBDA m : SessionFilter(m, sessionId)))

\* Only the first message of the session is picked for deletion
MessagesToDeleteFirst(entries, sessionId) ==
    LET hits == {j \in 1..Len(entries) : entries[j].sessionId = sessionId}
    IN  {entries[i].id : i \in {j \in hits : \A k \in hits : j <= k}}

MessagesToDelete(entries, sessionId) ==
    {entries[i].id : i \in {j \in 1..Len(entries) : entries[j].sessionId = sessionId}}

\* this.messages.clear()
ClearEverything(entries, sessionId) == SelectSeq(entries, LAMBDA m : FALSE)

ClearMessagesBySessionId(entries, sessionId) ==
    LET messagesToDelete == MessagesToDelete(entries, sessionId)
    IN  SelectSeq(entries, LAMBDA m : m.id \notin messagesToDelete)

----------------------------------------------------------------------------
(* Inputs of the requests *)

\* The requests, numbered in their order of arrival
Reqs == 1..MaxRequests
Sessions == {"s1", "s2"}

Msg2000 == Repeat("m", MaxMessageLen)
Msg2001 == Repeat("m", MaxMessageLen + 1)
Prompt1000 == Repeat("p", MaxPromptLen)
Prompt1001 == Repeat("p", MaxPromptLen + 1)

PngFile(size) == [present |-> TRUE, mimetype |-> "image/png", size |-> size]
PdfFile(size) == [present |-> TRUE, mimetype |-> "application/pdf", size |-> size]

\* The inputs of Spec: one accepted and one rejected value of each kind
Inputs ==
    [sessionId |-> Sessions,
     message   |-> {"", "Hi"},
     prompt    |-> {"", "a red cube"},
     caption   |-> {Undefined, "What is this?"},
     file      |-> {NoFile, PngFile(1)}]

\* The inputs of SpecBoundary: the values on both sides of every limit
BoundaryInputs ==
    [sessionId |-> {"s1", "", Undefined},
     message   |-> {Undefined, "", "H", Msg2000, Msg2001},
     prompt    |-> {Undefined, "", "c", Prompt1000, Prompt1001},
     caption   |-> {Undefined, "", "What is this?"},
     file      |-> {NoFile, PngFile(1), PngFile(FileSizeLimit), PngFile(FileSizeLimit + 1),
                    PdfFile(1)}]

\* What a Gemini text call can do: throw, or return response.text
Failure == "<failure>"
TextOutcomes == {Failure, "", "reply"}
ImageOutcomes == {Failure, "image"}

ChatFallback == "I apologize, but I couldn't generate a response. Please try again."
AnalysisFallback == "I couldn't analyze this image. Please try again."
UploadDefault == "I've uploaded an image for you to analyze."

----------------------------------------------------------------------------
(* Request bookkeeping *)

\* No response has been sent
NoBody == [sent |-> FALSE]

IdleReq ==
    [pc |-> "idle", route |-> "none", sessionId |-> Undefined, text |-> Undefined,
     file |-> NoFile, imagePath |-> Null, created |-> <<>>,
     fetched |-> <<>>, history |-> <<>>, contents |-> <<>>,
     status |-> 0, body |-> NoBody, responses |-> 0,
     modelCalls |-> 0, outcome |-> "<none>",
     before |-> <<>>, solo |-> TRUE]

\* The next request to arrive takes the next record
Free(r) == r = started + 1

\* Every request that is on `sessionId` learns that its session was written
Disturbed(sessionId) ==
    [q \in Reqs |-> IF req[q].pc # "idle" /\ req[q].sessionId = sessionId
                    THEN [req[q] EXCEPT !.solo = FALSE] ELSE req[q]]

\* ... except the writer `a` itself, whose record becomes `mine`
Touch(a, mine, sessionId) == [Disturbed(sessionId) EXCEPT ![a] = mine]

Init ==
    /\ messages = <<>>
    /\ files = {}
    /\ now = 0
    /\ uuids = 0
    /\ uploads = 0
    /\ started = 0
    /\ req = [r \in Reqs |-> IdleReq]

Tick ==
    /\ now < MaxClock
    /\ now' = now + 1
    /\ UNCHANGED <<messages, files, uuids, uploads, started, req>>

----------------------------------------------------------------------------
(* storage.createMessage as the handlers call it *)

\* An id taken from the clock
MessageIdFromClock(n, timestamp) == timestamp

\* const id = randomUUID()
MessageId(n, timestamp) == RandomUUID(n)

\* The Message createMessage returns for `insertMessage` in the current state
Created(insertMessage) == NewMessage(insertMessage, MessageId(uuids + 1, now), now)

\* A handler segment of request r that ends in `await storage.createMessage(...)`
StoreMessage(r, mine, insertMessage) ==
    /\ messages' = CreateMessage(messages, insertMessage, MessageId(uuids + 1, now), now)
    /\ uuids' = uuids + 1
    /\ req' = Touch(r, [mine EXCEPT !.created = Append(mine.created, Created(insertMessage))],
                    insertMessage.sessionId)

\* A handler that answers 200 whatever happened
FinishAlwaysOk(r, mine, status) ==
    /\ req' = [req EXCEPT ![r] = [mine EXCEPT !.pc = "done", !.status = 200]]
    /\ UNCHANGED <<messages, uuids>>

\* A handler that takes back what it stored when it ends in an error
FinishRollback(r, mine, status) ==
    /\ req' = [req EXCEPT ![r] = [mine EXCEPT !.pc = "done", !.status = status]]
    /\ messages' = IF status = 200 THEN messages
                   ELSE SelectSeq(messages, LAMBDA m :
                            \A i \in 1..Len(mine.created) : mine.created[i].id # m.id)
    /\ UNCHANGED uuids

\* A handler that calls the model once more after a failed call
FinishRetrying(r, mine, status) ==
    /\ req' = [req EXCEPT ![r] =
            IF mine.outcome = Failure /\ mine.modelCalls < 2
            THEN [mine EXCEPT !.outcome = "<none>",
                              !.pc = CASE mine.route = "chat" -> "chat_history"
                                       [] mine.route = "upload" -> "upload_analyze"
                                       [] OTHER -> "generate_call"]
            ELSE [mine EXCEPT !.pc = "done", !.status = status]]
    /\ UNCHANGED <<messages, uuids>>

\* The message of a ZodError: the list of the issues found
ZodMessage == "<zod issues>"

\* error.message of what the catch block caught, or the text of a 400 reply
ErrorMessage(mine, status) ==
    IF status = 400
    THEN (IF ~mine.file.present THEN "No image file provided"
          ELSE "Session ID is required")
    ELSE CASE mine.route = "chat" ->
                IF mine.created = <<>> THEN ZodMessage
                ELSE "Failed to generate response from Gemini API"
           [] mine.route = "generate" ->
                IF mine.created = <<>> THEN ZodMessage
                ELSE "Failed to generate image"
           [] OTHER -> "Failed to analyze image"

\* An error reply that also hands out the user message already stored
ResponseBodyLeaking(mine, status) ==
    IF status = 200
    THEN [userMessage |-> mine.created[1], assistantMessage |-> mine.created[2]]
    ELSE IF mine.created = <<>>
    THEN [message |-> ErrorMessage(mine, status)]
    ELSE [message |-> ErrorMessage(mine, status), userMessage |-> mine.created[1]]

\* The JSON a handler sends; an upload multer rejects never reaches the handler
\* and is answered by the error handling of Express
ResponseBody(mine, status) ==
    IF status = 200
    THEN [userMessage |-> mine.created[1], assistantMessage |-> mine.created[2]]
    ELSE IF mine.route = "upload" /\ mine.pc = "idle"
    THEN [unhandled |-> IF FileFilterAccepts(mine.file) THEN "File too large"
                        ELSE "Only image files are allowed"]
    ELSE [message |-> ErrorMessage(mine, status)]

\* A handler segment of request r that ends the request without writing
Finish(r, mine, status) ==
    /\ req' = [req EXCEPT ![r] = [mine EXCEPT !.pc = "done", !.status = status,
                                              !.body = ResponseBody(mine, status),
                                              !.responses = @ + 1]]
    /\ UNCHANGED <<messages, uuids>>

\* A request as it arrives
Arrived(route, sessionId, text, file) ==
    [IdleReq EXCEPT !.route = route, !.sessionId = sessionId, !.text = text,
                    !.file = file,
                    !.before = GetMessagesBySessionId(messages, sessionId)]

----------------------------------------------------------------------------
(* POST /api/chat: routes.ts lines 39-78 *)

ChatBegin(r, message, sessionId) ==
    /\ Free(r)
    /\ started' = started + 1
    /\ LET mine == Arrived("chat", sessionId, message, NoFile) IN
       IF ChatRequestValid(message, sessionId)
       THEN StoreMessage(r, [mine EXCEPT !.pc = "chat_history"],
                [content |-> message, role |-> "user", sessionId |-> sessionId,
                 imageUrl |-> Undefined, messageType |-> Undefined])
       ELSE Finish(r, mine, 500)
    /\ UNCHANGED <<files, now, uploads>>

\* history.map(msg => ({role, content, imageUrl}))
ConversationHistory(history) ==
    [i \in 1..Len(history) |->
        [role |-> history[i].role, content |-> history[i].content,
         imageUrl |-> history[i].imageUrl]]

\* A role passed on as it is stored
GeminiRoleUnmapped(role) == role

\* msg.role === "assistant" ? "model" : "user"
GeminiRole(role) == IF role = "assistant" THEN "model" ELSE "user"

\* fs.readFileSync(path).toString("base64"): the bytes are those of the file at path
ReadFileBase64(path) == "base64:" \o path

\* An image part for every message that names an image
ImagePartWheneverNamed(imageUrl, fs) == ~Falsy(imageUrl)

\* msg.imageUrl && fs.existsSync(msg.imageUrl)
ImagePartIncluded(imageUrl, fs) == ~Falsy(imageUrl) /\ imageUrl \in fs

\* One entry of formattedMessages
FormatMessage(msg, fs) ==
    [role  |-> GeminiRole(msg.role),
     parts |-> <<[text |-> msg.content]>> \o
               (IF ImagePartIncluded(msg.imageUrl, fs)
                THEN <<[inlineData |-> [data |-> ReadFileBase64(msg.imageUrl),
                                        mimeType |-> "image/jpeg"]]>>
                ELSE <<>>)]

\* formattedMessages = messages.map(...)
FormatMessages(msgs, fs) == [i \in 1..Len(msgs) |-> FormatMessage(msgs[i], fs)]

ChatHistory(r) ==
    /\ req[r].pc = "chat_history"
    /\ req' = [req EXCEPT ![r] = [@ EXCEPT
            !.pc = "chat_model",
            !.fetched = GetMessagesBySessionId(messages, req[r].sessionId),
            !.history = ConversationHistory(
                            GetMessagesBySessionId(messages, req[r].sessionId)),
            !.contents = FormatMessages(
                            ConversationHistory(
                                GetMessagesBySessionId(messages, req[r].sessionId)),
                            files),
            !.modelCalls = @ + 1]]
    /\ UNCHANGED <<messages, files, now, uuids, uploads, started>>

ChatModelReturn(r, outcome) ==
    /\ req[r].pc = "chat_model"
    /\ IF outcome = Failure
       THEN Finish(r, [req[r] EXCEPT !.outcome = outcome], 500)
       ELSE StoreMessage(r, [req[r] EXCEPT !.pc = "chat_respond", !.outcome = outcome],
                [content |-> OrElse(outcome, ChatFallback), role |-> "assistant",
                 sessionId |-> req[r].sessionId,
                 imageUrl |-> Undefined, messageType |-> Undefined])
    /\ UNCHANGED <<files, now, uploads, started>>

ChatRespond(r) ==
    /\ req[r].pc = "chat_respond"
    /\ Finish(r, req[r], 200)
    /\ UNCHANGED <<files, now, uploads, started>>

----------------------------------------------------------------------------
(* GET and DELETE /api/chat/:sessionId: routes.ts lines 81-102 *)

\* res.json(messages): nothing is written
GetChat(sessionId) ==
    /\ sessionId \in Sessions
    /\ UNCHANGED <<messages, files, now, uuids, uploads, started, req>>

DeleteChat(sessionId) ==
    /\ messages' = ClearMessagesBySessionId(messages, sessionId)
    /\ req' = Disturbed(sessionId)
    /\ UNCHANGED <<files, now, uuids, uploads, started>>

----------------------------------------------------------------------------
(* POST /api/upload-image: routes.ts lines 22-35 and 105-149 *)

\* The name multer gives the n-th file it stores (random, never repeated)
MulterFilename(n) == "upload" \o ToString(n)

PathJoin(dir, name) == dir \o "/" \o name

\* upload.single('image'): the file filter, the size limit, the write to uploads/
UploadMiddleware(r, file, sessionId, message) ==
    /\ Free(r)
    /\ started' = started + 1
    /\ LET mine == Arrived("upload", sessionId, message, file) IN
       IF file.present /\ FileFilterAccepts(file) /\ WithinFileSizeLimit(file)
       THEN /\ files' = files \cup {PathJoin("uploads", MulterFilename(uploads + 1))}
            /\ uploads' = uploads + 1
            /\ req' = [req EXCEPT ![r] = [mine EXCEPT
                    !.pc = "upload_handler",
                    !.imagePath = PathJoin("uploads", MulterFilename(uploads + 1))]]
            /\ UNCHANGED <<messages, uuids>>
       ELSE IF file.present
       THEN Finish(r, mine, 500) /\ UNCHANGED <<files, uploads>>
       ELSE /\ req' = [req EXCEPT ![r] = [mine EXCEPT !.pc = "upload_handler"]]
            /\ UNCHANGED <<messages, uuids, files, uploads>>
    /\ UNCHANGED now

UploadHandler(r) ==
    /\ req[r].pc = "upload_handler"
    /\ IF ~req[r].file.present THEN Finish(r, req[r], 400)
       ELSE IF Falsy(req[r].sessionId) THEN Finish(r, req[r], 400)
       ELSE StoreMessage(r, [req[r] EXCEPT !.pc = "upload_analyze"],
                [content |-> OrElse(OrElse(req[r].text, ""), UploadDefault),
                 role |-> "user", sessionId |-> req[r].sessionId,
                 imageUrl |-> req[r].imagePath, messageType |-> "image"])
    /\ UNCHANGED <<files, now, uploads, started>>

\* analyzeImage up to its model call: readFileSync throws when the file is gone
UploadAnalyze(r) ==
    /\ req[r].pc = "upload_analyze"
    /\ IF req[r].imagePath \in files
       THEN /\ req' = [req EXCEPT ![r] = [@ EXCEPT !.pc = "upload_model",
                                                   !.modelCalls = @ + 1]]
            /\ UNCHANGED <<messages, uuids>>
       ELSE Finish(r, req[r], 500)
    /\ UNCHANGED <<files, now, uploads, started>>

UploadModelReturn(r, outcome) ==
    /\ req[r].pc = "upload_model"
    /\ IF outcome = Failure
       THEN Finish(r, [req[r] EXCEPT !.outcome = outcome], 500)
       ELSE StoreMessage(r, [req[r] EXCEPT !.pc = "upload_respond", !.outcome = outcome],
                [content |-> OrElse(outcome, AnalysisFallback), role |-> "assistant",
                 sessionId |-> req[r].sessionId,
                 imageUrl |-> Null, messageType |-> "text"])
    /\ UNCHANGED <<files, now, uploads, started>>

UploadRespond(r) ==
    /\ req[r].pc = "upload_respond"
    /\ Finish(r, req[r], 200)
    /\ UNCHANGED <<files, now, uploads, started>>

----------------------------------------------------------------------------
(* POST /api/generate-image: routes.ts lines 152-189 *)

\* `generated_${Date.now()}.jpg`
ImageFilename(t) == "generated_" \o ToString(t) \o ".jpg"

GenerateBegin(r, prompt, sessionId) ==
    /\ Free(r)
    /\ started' = started + 1
    /\ LET mine == Arrived("generate", sessionId, prompt, NoFile) IN
       IF ImageGenerationValid(prompt, sessionId)
       THEN StoreMessage(r, [mine EXCEPT !.pc = "generate_call"],
                [content |-> "Generate an image: " \o prompt, role |-> "user",
                 sessionId |-> sessionId,
                 imageUrl |-> Null, messageType |-> "text"])
       ELSE Finish(r, mine, 500)
    /\ UNCHANGED <<files, now, uploads>>

GenerateCall(r) ==
    /\ req[r].pc = "generate_call"
    /\ req' = [req EXCEPT ![r] = [@ EXCEPT
            !.pc = "generate_model",
            !.imagePath = PathJoin("uploads", ImageFilename(now)),
            !.modelCalls = @ + 1]]
    /\ UNCHANGED <<messages, files, now, uuids, uploads, started>>

\* generateImage returns after writing the image, or throws
GenerateModelReturn(r, outcome) ==
    /\ req[r].pc = "generate_model"
    /\ IF outcome = Failure
       THEN Finish(r, [req[r] EXCEPT !.outcome = outcome], 500) /\ UNCHANGED files
       ELSE /\ files' = files \cup {req[r].imagePath}
            /\ StoreMessage(r, [req[r] EXCEPT !.pc = "generate_respond",
                                              !.outcome = outcome],
                [content |-> "I've generated an image based on your prompt: \""
                                \o req[r].text \o "\"",
                 role |-> "assistant", sessionId |-> req[r].sessionId,
                 imageUrl |-> req[r].imagePath, messageType |-> "image_generation"])
    /\ UNCHANGED <<now, uploads, started>>

GenerateRespond(r) ==
    /\ req[r].pc = "generate_respond"
    /\ Finish(r, req[r], 200)
    /\ UNCHANGED <<files, now, uploads, started>>

----------------------------------------------------------------------------
(* The server *)

\* The requests that arrive, `limit` of them at most, with inputs drawn from `in`
Arrivals(in, limit) ==
    \/ \E r \in Reqs, message \in in.message, sessionId \in in.sessionId :
            started < limit /\ ChatBegin(r, message, sessionId)
    \/ \E r \in Reqs, file \in in.file, sessionId \in in.sessionId, message \in in.caption :
            started < limit /\ UploadMiddleware(r, file, sessionId, message)
    \/ \E r \in Reqs, prompt \in in.prompt, sessionId \in in.sessionId :
            started < limit /\ GenerateBegin(r, prompt, sessionId)

\* The steps of the requests under way, and the reads
Handlers ==
    \/ \E r \in Reqs : ChatHistory(r)
    \/ \E r \in Reqs, outcome \in TextOutcomes : ChatModelReturn(r, outcome)
    \/ \E r \in Reqs : ChatRespond(r)
    \/ \E sessionId \in Sessions : GetChat(sessionId)
    \/ \E r \in Reqs : UploadHandler(r)
    \/ \E r \in Reqs : UploadAnalyze(r)
    \/ \E r \in Reqs, outcome \in TextOutcomes : UploadModelReturn(r, outcome)
    \/ \E r \in Reqs : UploadRespond(r)
    \/ \E r \in Reqs : GenerateCall(r)
    \/ \E r \in Reqs, outcome \in ImageOutcomes : GenerateModelReturn(r, outcome)
    \/ \E r \in Reqs : GenerateRespond(r)

\* ... and the clears
Progress ==
    \/ Handlers
    \/ \E sessionId \in Sessions : DeleteChat(sessionId)

Next == Arrivals(Inputs, MaxRequests) \/ Progress \/ Tick

Spec == Init /\ [][Next]_vars

\* The same server within one clock tick, probed with the values around every
\* validation limit
NextBoundary == Arrivals(BoundaryInputs, MaxProbes) \/ Progress

SpecBoundary == Init /\ [][NextBoundary]_vars

\* The server when no session is ever cleared
NextNoClear == Arrivals(Inputs, MaxRequests) \/ Handlers \/ Tick

SpecNoClear == Init /\ [][NextNoClear]_vars

\* A file of the uploads directory is removed from outside the server
RemoveFile(path) ==
    /\ path \in files
    /\ files' = files \ {path}
    /\ UNCHANGED <<messages, now, uuids, uploads, started, req>>

\* The server over a file system whose files may disappear
NextFiles ==
    \/ Arrivals(Inputs, MaxRequests)
    \/ Handlers
    \/ \E path \in files : RemoveFile(path)

SpecFiles == Init /\ [][NextFiles]_vars

\* The server whose event loop runs every continuation that is ready, and whose
\* model calls all return or fail
NextFair == Arrivals(Inputs, MaxRequests) \/ Progress

SpecFair == Init /\ [][NextFair]_vars /\ WF_vars(Handlers)

----------------------------------------------------------------------------
(* Properties *)

Stored == {messages[i] : i \in 1..Len(messages)}

Roles(list) == [i \in 1..Len(list) |-> list[i].role]

\* The request passed its route's validation
Accepted(q) ==
    CASE q.route = "chat" -> ChatRequestValid(q.text, q.sessionId)
      [] q.route = "generate" -> ImageGenerationValid(q.text, q.sessionId)
      [] q.route = "upload" ->
            /\ q.file.present /\ FileFilterAccepts(q.file) /\ WithinFileSizeLimit(q.file)
            /\ ~Falsy(q.sessionId)
      [] OTHER -> FALSE

\* C1: for every session S, getMessagesBySessionId(S) holds exactly the stored
\* messages of S, each once and none of another session, in non-decreasing
\* timestamp order.
ListIsSessionSorted ==
    \A sessionId \in Sessions :
        LET list == GetMessagesBySessionId(messages, sessionId) IN
        /\ \A i \in 1..Len(list) : list[i].sessionId = sessionId /\ list[i] \in Stored
        /\ \A m \in Stored : m.sessionId = sessionId => \E i \in 1..Len(list) : list[i] = m
        /\ Len(list) = Cardinality({i \in 1..Len(messages) :
                                        messages[i].sessionId = sessionId})
        /\ \A i, j \in 1..Len(list) : i < j => list[i].timestamp <= list[j].timestamp

\* Both sessions hold messages, s1 holds messages of different clock ticks
ListIsSessionSortedWitness ==
    LET list == GetMessagesBySessionId(messages, "s1") IN
    /\ Len(list) >= 2
    /\ list[1].timestamp < list[Len(list)].timestamp
    /\ GetMessagesBySessionId(messages, "s2") # <<>>

\* C2: a finished request that passed validation and had its session to itself
\* added two messages to the session (user, then assistant) and answered 200 when
\* the model call succeeded, and added only the user's message, which stays, and
\* answered with an error when the model call failed.
TwoOnSuccessOneOnFailure ==
    \A r \in Reqs :
        LET q == req[r] IN
        (q.pc = "done" /\ Accepted(q)) =>
            /\ q.modelCalls = 1
            /\ q.outcome # "<none>"
            /\ q.outcome # Failure => /\ q.status = 200
                                      /\ Roles(q.created) = <<"user", "assistant">>
            /\ q.outcome = Failure => /\ q.status = 500
                                      /\ Roles(q.created) = <<"user">>
            /\ \A i \in 1..Len(q.created) : q.created[i].sessionId = q.sessionId
            /\ q.solo => GetMessagesBySessionId(messages, q.sessionId)
                            = q.before \o q.created

\* A request on a session that already held messages ended in a failed model call
\* and left its user message behind
TwoOnSuccessOneOnFailureWitness ==
    \E r \in Reqs :
        /\ req[r].pc = "done" /\ req[r].solo /\ req[r].outcome = Failure
        /\ req[r].before # <<>>
        /\ GetMessagesBySessionId(messages, req[r].sessionId)
                = req[r].before \o req[r].created

\* C3 as stated: a finished request has persisted no message or two, never one.
PersistsZeroOrTwo ==
    \A r \in Reqs : req[r].pc = "done" => Len(req[r].created) \in {0, 2}

\* C3: a finished request has persisted none, one or two messages: none when it
\* was rejected, only the user's when its model call failed (with an error
\* response), the user's and then the assistant's when it answers 200; never the
\* assistant's alone.
PersistsUserFirst ==
    \A r \in Reqs :
        LET q == req[r] IN
        /\ Roles(q.created) \in {<<>>, <<"user">>, <<"user", "assistant">>}
        /\ q.pc = "done" =>
            /\ Len(q.created) = 0 <=> ~Accepted(q)
            /\ Len(q.created) = 1 <=> q.outcome = Failure
            /\ Len(q.created) = 2 <=> q.status = 200
            /\ Len(q.created) < 2 => q.status \in {400, 500}

\* Of two finished requests one persisted only its user message, the other both
PersistsUserFirstWitness ==
    \E r, t \in Reqs :
        /\ req[r].pc = "done" /\ Roles(req[r].created) = <<"user">>
        /\ req[t].pc = "done" /\ Roles(req[t].created) = <<"user", "assistant">>

\* C4: a chat request whose message is missing, empty or longer than 2000
\* characters, or an image-generation request whose prompt is missing, empty or
\* longer than 1000 characters, or either with a missing or empty sessionId, ends
\* at once with status 500, without a model call and without a change to the
\* store; a message of 1 or 2000 characters (a prompt of 1 or 1000) with a
\* sessionId is accepted and its user message is appended to the store.
RejectsOutOfRange ==
    [][\A r \in Reqs :
        LET q == req'[r]
            max == IF q.route = "chat" THEN 2000 ELSE 1000
            bad == Falsy(q.text) \/ Len(q.text) > max \/ Falsy(q.sessionId)
            edge == ~Falsy(q.text) /\ Len(q.text) \in {1, max} /\ ~Falsy(q.sessionId)
        IN  q.route \in {"chat", "generate"} =>
            /\ bad => /\ q.pc = "done" /\ q.status = 500
                      /\ q.modelCalls = 0 /\ q.created = <<>>
                      /\ req[r].pc = "idle" => messages' = messages
            /\ edge => /\ Roles(q.created)[1] = "user"
                       /\ req[r].pc = "idle" => messages' = Append(messages, q.created[1])
      ]_vars

\* A chat message of 2001 characters was rejected
RejectsOutOfRangeWitness ==
    \E r \in Reqs :
        /\ req[r].route = "chat" /\ Len(req[r].text) = 2001 /\ req[r].sessionId = "s1"
        /\ req[r].pc = "done" /\ req[r].status = 500 /\ req[r].created = <<>>

\* C5: an upload with no file, with a file that is not jpeg/jpg/png/gif/webp, with
\* a file over 10 MiB, or with a missing or empty sessionId never creates a
\* message and never reaches image analysis: none of its steps changes the store
\* or any session's listing, and it ends with status 400 or 500.
RejectsBadUpload ==
    [][\A r \in Reqs :
        LET q == req'[r]
            bad == \/ ~q.file.present
                   \/ q.file.mimetype \notin {"image/jpeg", "image/jpg", "image/png",
                                              "image/gif", "image/webp"}
                   \/ q.file.size > 10 * 1024 * 1024
                   \/ Falsy(q.sessionId)
        IN  (q.route = "upload" /\ bad) =>
            /\ q.created = <<>> /\ q.modelCalls = 0
            /\ q.pc \in {"upload_handler", "done"}
            /\ q.pc = "done" => q.status \in {400, 500}
            /\ req[r].pc # q.pc =>
                /\ messages' = messages
                /\ \A sessionId \in Sessions :
                        GetMessagesBySessionId(messages', sessionId)
                            = GetMessagesBySessionId(messages, sessionId)
            /\ (q.pc = "done" /\ q.solo /\ q.sessionId \in Sessions) =>
                    GetMessagesBySessionId(messages', q.sessionId) = q.before
      ]_vars

\* An upload of a PDF was rejected
RejectsBadUploadWitness ==
    \E r \in Reqs :
        /\ req[r].route = "upload" /\ req[r].file.present
        /\ req[r].file.mimetype = "application/pdf" /\ req[r].sessionId = "s1"
        /\ req[r].pc = "done" /\ req[r].status = 500 /\ req[r].created = <<>>

\* C6: clearing session S removes every stored message of S and nothing else: the
\* messages of the other sessions stay, and their listings are the same before
\* and after.
ClearTouchesOnlyItsSession ==
    [][\A sessionId \in Sessions :
        DeleteChat(sessionId) =>
            /\ \A m \in Stored' : m.sessionId # sessionId
            /\ \A m \in Stored : m.sessionId # sessionId => m \in Stored'
            /\ \A other \in Sessions \ {sessionId} :
                    GetMessagesBySessionId(messages', other)
                        = GetMessagesBySessionId(messages, other)
      ]_vars

\* One request's messages were cleared while the other session's are still stored
ClearTouchesOnlyItsSessionWitness ==
    \E r, t \in Reqs :
        /\ req[r].created # <<>> /\ req[t].created # <<>>
        /\ req[r].sessionId # req[t].sessionId
        /\ \A i \in 1..Len(req[r].created) : req[r].created[i] \notin Stored
        /\ \A i \in 1..Len(req[t].created) : req[t].created[i] \in Stored

\* C7: right after clearing session S its listing is empty, whether or not S held
\* messages, and clearing S once more leaves the store as it is.
ClearEmptiesAndIsIdempotent ==
    [][\A sessionId \in Sessions :
        DeleteChat(sessionId) =>
            /\ GetMessagesBySessionId(messages', sessionId) = <<>>
            /\ ClearMessagesBySessionId(messages', sessionId) = messages'
      ]_vars

\* A session that held a finished request's two messages lists nothing
ClearEmptiesAndIsIdempotentWitness ==
    \E r \in Reqs :
        /\ req[r].pc = "done" /\ Len(req[r].created) = 2
        /\ GetMessagesBySessionId(messages, req[r].sessionId) = <<>>

\* C8: a stored message never changes: in every step each stored message is still
\* stored with the same fields under its id, unless the step clears its session.
StoredMessagesNeverChange ==
    [][\A m \in Stored :
        /\ \A x \in Stored' : x.id = m.id => x = m
        /\ m \notin Stored' => \E sessionId \in Sessions :
                                    DeleteChat(sessionId) /\ m.sessionId = sessionId
      ]_vars

\* A request's message outlived a later request that failed
StoredMessagesNeverChangeWitness ==
    \E r, t \in Reqs :
        /\ r < t /\ req[r].created # <<>> /\ req[r].created[1] \in Stored
        /\ req[t].pc = "done" /\ req[t].outcome = Failure
        /\ req[t].sessionId = req[r].sessionId

\* C9: no two stored messages share an id, and every create stores its message
\* under an id no stored message has, as a new last entry of the store.
IdsAreUnique ==
    [][/\ \A i, j \in 1..Len(messages') : i # j => messages'[i].id # messages'[j].id
       /\ \A r \in Reqs :
            Len(req'[r].created) > Len(req[r].created) =>
                LET m == req'[r].created[Len(req'[r].created)] IN
                /\ m.id \notin {x.id : x \in Stored}
                /\ messages' = Append(messages, m)
      ]_vars

\* Messages of two sessions are stored, written after an earlier one was cleared
IdsAreUniqueWitness ==
    /\ \E r \in Reqs : req[r].created # <<>> /\ req[r].created[1] \notin Stored
    /\ \E m, x \in Stored : m.sessionId # x.sessionId

\* C10: a chat request that has its session to itself passes the model the
\* session's messages as they were before it, followed by its own user message; on
\* an empty session and the message "Hi" that is the single entry (user, "Hi"),
\* and after a successful reply the session lists user "Hi", then the assistant's
\* reply.
HistoryEndsWithOwnMessage ==
    \A r \in Reqs :
        LET q == req[r] IN
        (q.route = "chat" /\ q.modelCalls = 1 /\ q.solo) =>
            /\ q.history = ConversationHistory(q.before \o <<q.created[1]>>)
            /\ q.history[Len(q.history)]
                    = [role |-> "user", content |-> q.text, imageUrl |-> Null]
            /\ (q.before = <<>> /\ q.text = "Hi") =>
                /\ q.history = <<[role |-> "user", content |-> "Hi", imageUrl |-> Null]>>
                /\ (q.pc = "done" /\ q.status = 200) =>
                    LET list == GetMessagesBySessionId(messages, q.sessionId) IN
                    /\ Roles(list) = <<"user", "assistant">>
                    /\ list[1].content = "Hi"
                    /\ list[2].content = OrElse(q.outcome, ChatFallback)

\* "Hi" was sent to the empty session s1 while s2 held messages, and was answered
HistoryEndsWithOwnMessageWitness ==
    \E r \in Reqs :
        /\ req[r].route = "chat" /\ req[r].text = "Hi" /\ req[r].sessionId = "s1"
        /\ req[r].before = <<>> /\ req[r].solo
        /\ req[r].pc = "done" /\ req[r].outcome = "reply"
        /\ Len(req[r].history) = 1
        /\ GetMessagesBySessionId(messages, "s2") # <<>>

\* p occurs in s
Contains(s, p) ==
    \E i \in 1..(Len(s) - Len(p) + 1) : SubSeq(s, i, i + Len(p) - 1) = p

\* C11: an image-generation request with prompt P that stored both its messages
\* stored a user message of type text without imageUrl whose content contains P,
\* then an assistant message of type image_generation whose content contains P
\* and whose imageUrl is the path the image was written to.
GenerationMessages ==
    \A r \in Reqs :
        LET q == req[r] IN
        (q.route = "generate" /\ Len(q.created) = 2) =>
            /\ q.created[1].role = "user" /\ q.created[1].messageType = "text"
            /\ q.created[1].imageUrl = Null
            /\ q.created[1].sessionId = q.sessionId
            /\ Contains(q.created[1].content, q.text)
            /\ q.created[2].role = "assistant"
            /\ q.created[2].messageType = "image_generation"
            /\ q.created[2].sessionId = q.sessionId
            /\ ~Falsy(q.created[2].imageUrl)
            /\ q.created[2].imageUrl = q.imagePath /\ q.imagePath \in files
            /\ Contains(q.created[2].content, q.text)
            /\ q.solo => GetMessagesBySessionId(messages, q.sessionId)
                            = q.before \o q.created

\* "a red cube" was generated on s2 and answered
GenerationMessagesWitness ==
    \E r \in Reqs :
        /\ req[r].route = "generate" /\ req[r].text = "a red cube"
        /\ req[r].sessionId = "s2" /\ req[r].pc = "done" /\ req[r].status = 200
        /\ req[r].solo /\ Len(GetMessagesBySessionId(messages, "s2")) = 2

\* C12: an upload request that stored both its messages stored a user message of
\* type image whose imageUrl is the stored file's path and whose content is the
\* caller's text, or the fixed default when that is missing or empty, then an
\* assistant message of type text without imageUrl whose content is the text
\* analyzeImage returned.
UploadMessages ==
    \A r \in Reqs :
        LET q == req[r] IN
        (q.route = "upload" /\ Len(q.created) = 2) =>
            /\ q.created[1].role = "user" /\ q.created[1].messageType = "image"
            /\ q.created[1].sessionId = q.sessionId
            /\ q.created[1].imageUrl = q.imagePath /\ q.imagePath \in files
            /\ q.created[1].content =
                    IF q.text \in {Undefined, ""}
                    THEN "I've uploaded an image for you to analyze."
                    ELSE q.text
            /\ q.created[2].role = "assistant" /\ q.created[2].messageType = "text"
            /\ q.created[2].sessionId = q.sessionId
            /\ q.created[2].imageUrl = Null
            /\ q.created[2].content =
                    IF q.outcome = ""
                    THEN "I couldn't analyze this image. Please try again."
                    ELSE q.outcome

\* An upload with an empty caption was analysed and answered
UploadMessagesWitness ==
    \E r \in Reqs :
        /\ req[r].route = "upload" /\ req[r].text = ""
        /\ req[r].pc = "done" /\ req[r].status = 200 /\ req[r].outcome = "reply"
        /\ Len(GetMessagesBySessionId(messages, "s1")) = 2

\* C13: no request calls the model more than once, and a request whose model call
\* failed has ended, with status 500, after that one call and without an
\* assistant message.
NoRetry ==
    \A r \in Reqs :
        LET q == req[r] IN
        /\ q.modelCalls <= 1
        /\ q.outcome # "<none>" => q.modelCalls = 1
        /\ q.outcome = Failure =>
            /\ q.pc = "done" /\ q.status = 500
            /\ Roles(q.created) = <<"user">>

\* A chat request and an image generation both ended in a failed model call
NoRetryWitness ==
    \E r, t \in Reqs :
        /\ req[r].route = "chat" /\ req[r].outcome = Failure /\ req[r].modelCalls = 1
        /\ req[t].route = "generate" /\ req[t].outcome = Failure /\ req[t].modelCalls = 1

\* Chat requests a and b are on one session and each has read its history
BothReadHistory(a, b) ==
    /\ a # b /\ req[a].route = "chat" /\ req[b].route = "chat"
    /\ req[a].sessionId = req[b].sessionId
    /\ req[a].modelCalls = 1 /\ req[b].modelCalls = 1

\* The history request a read lacks the user message of request b
Misses(a, b) == \A i \in 1..Len(req[a].fetched) : req[a].fetched[i] # req[b].created[1]

RECURSIVE CompletedCreates(_)
CompletedCreates(n) ==
    IF n = 0 THEN 0 ELSE Len(req[n].created) + CompletedCreates(n - 1)

\* C15: while no session is cleared, under every interleaving, each message a
\* createMessage call returned is listed, with the fields it was created with, by
\* getMessagesBySessionId of its session, exactly once, and the store holds as
\* many messages as createMessage calls have returned.
StoreNeverLosesAMessage ==
    /\ \A r \in Reqs : \A i \in 1..Len(req[r].created) :
        LET m == req[r].created[i]
            list == GetMessagesBySessionId(messages, m.sessionId)
        IN  Cardinality({k \in 1..Len(list) : list[k] = m}) = 1
    /\ Len(messages) = CompletedCreates(MaxRequests)

\* Two requests on one session ran interleaved (each read the other's user message
\* and no reply) and both succeeded; a listing holds all four messages
StoreNeverLosesAMessageWitness ==
    \E a, b \in Reqs :
        /\ a # b /\ req[a].sessionId = req[b].sessionId
        /\ req[a].pc = "done" /\ req[b].pc = "done"
        /\ Roles(req[a].fetched) = <<"user", "user">>
        /\ Roles(req[b].fetched) = <<"user", "user">>
        /\ Len(req[a].created) = 2 /\ Len(req[b].created) = 2
        /\ Len(GetMessagesBySessionId(messages, req[a].sessionId)) = 4

\* The messages of a session in the order of their creation (the store is a Map,
\* which iterates in insertion order)
InCreationOrder(sessionId) == SelectSeq(messages, LAMBDA m : m.sessionId = sessionId)

\* C16: getMessagesBySessionId lists the messages of a session in the order of
\* their creation: timestamps do not decrease along the listing, and messages of
\* one clock tick keep the order in which they were created.
ListingIsCreationOrder ==
    \A sessionId \in Sessions :
        LET list == GetMessagesBySessionId(messages, sessionId) IN
        /\ list = InCreationOrder(sessionId)
        /\ \A i, j \in 1..Len(list) :
            i < j => /\ list[i].timestamp <= list[j].timestamp
                     /\ list[i].id < list[j].id

\* A listing with two messages of one clock tick followed by a later one
ListingIsCreationOrderWitness ==
    \E sessionId \in Sessions :
        LET list == GetMessagesBySessionId(messages, sessionId) IN
        /\ Len(list) >= 3
        /\ list[1].timestamp = list[2].timestamp
        /\ list[2].timestamp < list[Len(list)].timestamp

\* C17: in every reachable state, clears interleaved with requests included, an
\* assistant message that is stored has its invocation's user message stored too.
NoAssistantOnlyRemnant ==
    \A r \in Reqs :
        (Len(req[r].created) = 2 /\ req[r].created[2] \in Stored)
            => req[r].created[1] \in Stored

\* C18: any two image generations write their image under distinct file names.
GeneratedFileNamesDistinct ==
    \A a, b \in Reqs :
        (/\ a # b /\ req[a].route = "generate" /\ req[b].route = "generate"
         /\ req[a].imagePath # Null /\ req[b].imagePath # Null)
            => req[a].imagePath # req[b].imagePath

\* C19: the history assembler turns the message sequence into a sequence of the
\* same length and order whose entry i has role "model" when message i is an
\* assistant message and "user" otherwise, and whose first part is message i's text.
AssemblerKeepsOrderAndMapsRoles ==
    \A r \in Reqs :
        (req[r].route = "chat" /\ req[r].modelCalls = 1) =>
            LET msgs == req[r].fetched
                out  == req[r].contents
            IN  /\ Len(out) = Len(msgs)
                /\ \A i \in 1..Len(msgs) :
                    /\ msgs[i].role = "assistant" => out[i].role = "model"
                    /\ msgs[i].role # "assistant" => out[i].role = "user"
                    /\ out[i].parts[1] = [text |-> msgs[i].content]

\* A second turn of a session: user, assistant and user message were assembled
AssemblerKeepsOrderAndMapsRolesWitness ==
    \E r \in Reqs :
        /\ req[r].route = "chat" /\ req[r].modelCalls = 1
        /\ Roles(req[r].fetched) = <<"user", "assistant", "user">>
        /\ Roles(req[r].contents) = <<"user", "model", "user">>

\* C20: the step that assembles the history gives a message an image part, after
\* its text part, exactly when its imageUrl is set and the file exists at that
\* moment; a message whose file is missing gets its text part alone, and the
\* request goes on to the model call without an error status.
ImagePartIffFileExists ==
    [][\A r \in Reqs :
        ChatHistory(r) =>
            LET msgs == req'[r].fetched
                out  == req'[r].contents
            IN  /\ Len(out) = Len(msgs)
                /\ \A i \in 1..Len(msgs) :
                    LET url == msgs[i].imageUrl
                        there == url # Null /\ url \in files
                    IN  /\ out[i].parts[1] = [text |-> msgs[i].content]
                        /\ there => /\ Len(out[i].parts) = 2
                                    /\ out[i].parts[2].inlineData.data = ReadFileBase64(url)
                        /\ ~there => Len(out[i].parts) = 1
                /\ req'[r].pc = "chat_model"
                /\ req'[r].status = req[r].status
                /\ req'[r].modelCalls = 1
      ]_vars

\* A request waits for the model with a history in which a message names an image
\* whose file was gone at assembly, sent as text alone
ImagePartIffFileExistsWitness ==
    \E r \in Reqs :
        /\ req[r].route = "chat" /\ req[r].pc = "chat_model" /\ req[r].modelCalls = 1
        /\ \E i \in 1..Len(req[r].fetched) :
            /\ req[r].fetched[i].imageUrl # Null
            /\ req[r].fetched[i].imageUrl \notin files
            /\ Len(req[r].contents[i].parts) = 1

\* C21: every stored message has non-empty content: an upload without a caption
\* stores the fixed default as the user's text, and a model call that returns
\* empty text stores the fixed fallback of its route as the assistant's text.
StoredContentNonEmpty ==
    /\ \A m \in Stored : IsString(m.content) /\ Len(m.content) >= 1
    /\ \A r \in Reqs :
        LET q == req[r] IN
        /\ (q.route = "upload" /\ q.created # <<>> /\ Falsy(q.text))
                => q.created[1].content = UploadDefault
        /\ (q.route = "chat" /\ q.outcome = "")
                => Len(q.created) = 2 /\ q.created[2].content = ChatFallback
        /\ (q.route = "upload" /\ q.outcome = "")
                => Len(q.created) = 2 /\ q.created[2].content = AnalysisFallback

\* The store holds the default text of an upload without a caption, and the
\* fallbacks of an upload and of a chat request whose model call returned ""
StoredContentNonEmptyWitness ==
    \E a, b \in Reqs :
        /\ req[a].route = "chat" /\ req[a].outcome = "" /\ req[a].created[2] \in Stored
        /\ req[b].route = "upload" /\ req[b].outcome = "" /\ Falsy(req[b].text)
        /\ req[b].created[1] \in Stored /\ req[b].created[2] \in Stored

\* Request q invoked its handler (an upload that multer rejects does not)
HandlerInvoked(q) ==
    \/ q.route \in {"chat", "generate"}
    \/ /\ q.route = "upload" /\ q.pc # "idle"
       /\ ~q.file.present \/ (FileFilterAccepts(q.file) /\ WithinFileSizeLimit(q.file))

\* What holds of the response of a handler invocation in every state
OneResponseOfTheRightKind(q) ==
    /\ q.responses <= 1
    /\ q.pc = "done" <=> q.responses = 1
    /\ q.pc # "done" => q.body = NoBody
    /\ q.pc = "done" =>
        /\ q.status = 200 <=> Len(q.created) = 2
        /\ q.status = 200 =>
            /\ q.body = [userMessage |-> q.created[1], assistantMessage |-> q.created[2]]
            /\ q.created[1].role = "user" /\ q.created[2].role = "assistant"
            /\ \A m \in Stored :
                /\ m.id = q.body.userMessage.id => m = q.body.userMessage
                /\ m.id = q.body.assistantMessage.id => m = q.body.assistantMessage
        /\ q.status # 200 =>
            /\ q.status \in {400, 500}
            /\ DOMAIN q.body = {"message"}
            /\ IsString(q.body.message) /\ Len(q.body.message) >= 1

\* C22: every handler invocation eventually sends exactly one response (the model
\* call returning or failing); the response is the success response with
\* {userMessage, assistantMessage} exactly when the invocation persisted both
\* messages, the two records being the stored ones, and otherwise an error
\* response that carries a message string alone.
EveryInvocationRespondsOnce ==
    /\ [](\A r \in Reqs : HandlerInvoked(req[r]) => OneResponseOfTheRightKind(req[r]))
    /\ \A r \in Reqs :
        HandlerInvoked(req[r]) ~> (req[r].pc = "done" /\ req[r].responses = 1)

\* One invocation answered with both records, which are in the store; another one
\* on the same session, whose model call failed, answered with a message alone
EveryInvocationRespondsOnceWitness ==
    \E a, b \in Reqs :
        /\ req[a].pc = "done" /\ req[a].status = 200
        /\ req[a].body.userMessage \in Stored
        /\ req[a].body.assistantMessage \in Stored
        /\ req[b].pc = "done" /\ req[b].status = 500 /\ req[b].outcome = Failure
        /\ Len(req[b].created) = 1
        /\ req[b].body = [message |-> ErrorMessage(req[b], 500)]
        /\ req[b].sessionId = req[a].sessionId

====
